---- MODULE Spec2Model ----
(***************************************************************************)
(* Model of the slime simulation.                                          *)
(*  - Spec: the render-graph node AgentSimNode (src/src/render.rs): its    *)
(*    readiness state machine (update), the bind groups built by           *)
(*    prepare_bind_group / create_phero_array_bind_groups and the compute  *)
(*    dispatches recorded by run.                                          *)
(*  - SpecDepth: the same node after a setup under every drawn            *)
(*    layer_count; SpecConfig: under every AgentSimRunConfig; SpecLive:    *)
(*    with the frame loop weakly fair; SpecSplit: the split nodes          *)
(*    DiffusionNode and AgentNode (src/src/diffusion.rs, src/src/agent.rs).*)
(*  - SpecSpecies, SpecSeed, SpecStartup, SpecInput, SpecFrame,            *)
(*    SpecFactor: the main-world systems (species upload,                  *)
(*    agent seeding, setup, input handlers, per-frame uniforms), each for  *)
(*    inputs drawn from bounded sets.                                      *)
(***************************************************************************)
EXTENDS Integers, Sequences, FiniteSets, TLC

VARIABLES
    state,              \* AgentSimNode.state : AgentSimState
    kernel,             \* PipelineCache state of each cached compute pipeline
    resolved,           \* render-world resources that can be fetched this frame
    agent_bind_groups,  \* Option<AgentSimImageBindGroups>      ({} = absent)
    env_bind_groups,    \* Option<PheroArrayEnvBindGroups>
    comp_bind_groups,   \* Option<PheroArrayCompositeBindGroups>
    run_config,         \* AgentSimRunConfig extracted for this frame
    phase,              \* position in the render schedule of one frame
    cmds,               \* dispatches recorded by run() in this frame
    lastDeposit,        \* field copy the last executed agent pass deposited into
    observed,           \* kernels that some update() call has seen ready
    panicked,           \* the run was aborted by a panic
    phero_cfg,          \* PheromoneConfig
    species_authored,   \* the authored AgentSpecies entities, in query order
    species_gpu,        \* Option<contents of SpeciesGpuBuffer>
    species_layer_weights, \* Option<SpeciesLayerWeights and its buffer contents>
    seed_args,          \* arguments of the generate_agents call
    agents_cpu,         \* Option<AgentsCpu.list>
    globals,            \* Option<GlobalUniforms>
    layer_params_cpu,   \* Option<PheromoneLayerParamsCpu.params>
    layer_params_buf,   \* Option<contents of PheromoneLayerParamsBuffer>
    time_delta,         \* Time::delta_secs of the current frame
    pending,            \* per-frame systems that have not run yet in this frame
    factor_args,        \* arguments of a per_frame_factor evaluation
    factor_out,         \* Option<results of that evaluation>
    last_input,         \* Option<the input the last handler read and the layer before it>
    prev_step_up,       \* Option<layer before the previous handler, if it wheeled one step up>
    sprite,             \* Option<Sprite.image of the display sprite>
    phero_array,        \* Option<depth_or_array_layers of the prev/next array images>
    diffusion_state,    \* DiffusionNode.state
    agent_state,        \* AgentNode.state
    split_kernel,       \* PipelineCache state of the pipelines of the two split nodes
    split_pending,      \* split nodes whose update() has not run yet in this frame
    split_cmds          \* node and ping index of each dispatch the split nodes recorded

renderVars == <<state, kernel, resolved, agent_bind_groups, env_bind_groups,
                comp_bind_groups, run_config, phase, cmds, lastDeposit, observed,
                sprite>>

speciesVars == <<species_authored, species_gpu, species_layer_weights>>

seedVars == <<seed_args, agents_cpu>>

frameVars == <<globals, layer_params_cpu, layer_params_buf, time_delta, pending>>

factorVars == <<factor_args, factor_out>>

inputVars == <<last_input, prev_step_up>>

splitVars == <<diffusion_state, agent_state, split_kernel, split_pending, split_cmds>>

appVars == <<phero_cfg, speciesVars, seedVars, frameVars, factorVars, inputVars,
             phero_array, splitVars>>

vars == <<renderVars, panicked, appVars>>

-----------------------------------------------------------------------------
(* AgentSimState *)

Loading == <<"Loading">>

Init_ == <<"Init">>

Update(i) == <<"Update", i>>

IsUpdate(s) == s[1] = "Update"

AgentSimStates == {Loading, Init_, Update(0), Update(1)}

(* AgentSimPipeline: the four cached compute pipelines *)
AgentKernel == "agent_sim_pipeline"

DiffuseKernel == "diffuse_array_pipeline"

InputKernel == "input_array_pipeline"

CompositeKernel == "composite_array_pipeline"

Kernels == {AgentKernel, DiffuseKernel, InputKernel, CompositeKernel}

(* CachedPipelineState as the node distinguishes it: Ok, the recoverable   *)
(* Err(ShaderNotLoaded), any other Err, and the remaining (`_`) states.    *)
KernelStates == {"Queued", "Creating", "Ok", "ShaderNotLoaded", "Err"}

(* How the pipeline cache moves one pipeline between two frames: a queued  *)
(* pipeline waits for its shader, compiles, and ends Ok or Err; a changed  *)
(* shader asset queues the pipeline again.                                 *)
KernelSucc(s) ==
    CASE s = "Queued"          -> {"ShaderNotLoaded", "Creating", "Ok", "Err"}
      [] s = "ShaderNotLoaded" -> {"Queued"}
      [] s = "Creating"        -> {"Ok", "Err"}
      [] s = "Ok"              -> {"Queued"}
      [] s = "Err"             -> {"Queued"}

(* get_compute_pipeline(id) is Some exactly when the state is Ok *)
GetComputePipeline(k) == kernel[k] = "Ok"

-----------------------------------------------------------------------------
(* Textures and resources *)

FieldCopies == {"prev", "next"}

DisplayTextures == {"texture_a", "texture_b"}

Resources == FieldCopies \cup DisplayTextures \cup {"species_weights"}

(* Storage-texture access declared by the bind group layouts *)
AgentSimLayout == [phero |-> "ReadWrite"]

PheroArrayEnvLayout ==
    [prev_array |-> "ReadOnly", next_array |-> "ReadWrite", rgba_temp |-> "ReadWrite"]

PheroArrayCompLayout == [array |-> "ReadOnly", rgba |-> "WriteOnly"]

(* variant: bind_group_1 binds the same view as bind_group_0 *)
AgentBindGroupsNoSwap ==
    [i \in {0, 1} |-> [phero |-> "next"]]

(* bind_group_0 / bind_group_1 of prepare_bind_group, binding 6 *)
AgentBindGroups ==
    [i \in {0, 1} |-> IF i = 0 THEN [phero |-> "next"] ELSE [phero |-> "prev"]]

(* variant: env_bg1 repeats the bindings of env_bg0 *)
EnvBindGroupsNoSwap ==
    [i \in {0, 1} |->
        [prev_array |-> "prev", next_array |-> "next", rgba_temp |-> "texture_b"]]

(* variant: env_bg1 binds prev_view at both array bindings *)
EnvBindGroupsAliased ==
    [i \in {0, 1} |->
        IF i = 0
        THEN [prev_array |-> "prev", next_array |-> "next", rgba_temp |-> "texture_b"]
        ELSE [prev_array |-> "prev", next_array |-> "prev", rgba_temp |-> "texture_a"]]

(* env_bg0 / env_bg1 of create_phero_array_bind_groups *)
EnvBindGroups ==
    [i \in {0, 1} |->
        IF i = 0
        THEN [prev_array |-> "prev", next_array |-> "next", rgba_temp |-> "texture_b"]
        ELSE [prev_array |-> "next", next_array |-> "prev", rgba_temp |-> "texture_a"]]

(* comp_bg0 / comp_bg1 of create_phero_array_bind_groups *)
CompBindGroups ==
    [i \in {0, 1} |->
        IF i = 0
        THEN [array |-> "next", rgba |-> "texture_b"]
        ELSE [array |-> "prev", rgba |-> "texture_a"]]

(* create_phero_array_bind_groups: None unless both arrays are resolved *)
CreatePheroArrayBindGroups(res) ==
    IF FieldCopies \subseteq res
    THEN {[env |-> EnvBindGroups, comp |-> CompBindGroups]}
    ELSE {}

Some(opt) == CHOOSE x \in opt : TRUE

-----------------------------------------------------------------------------
(* Dispatches recorded in a frame's command encoder *)

LayoutOf(stage) ==
    CASE stage \in {"diffuse", "input"} -> PheroArrayEnvLayout
      [] stage = "agents"               -> AgentSimLayout
      [] stage = "composite"            -> PheroArrayCompLayout

Dispatch(stage, pass, group, z) ==
    [stage |-> stage, pass |-> pass, group |-> group, z |-> z]

Bound(d, modes) ==
    {d.group[b] : b \in {x \in DOMAIN d.group : LayoutOf(d.stage)[x] \in modes}}

Reads(d) == Bound(d, {"ReadOnly", "ReadWrite"})

Writes(d) == Bound(d, {"ReadWrite", "WriteOnly"})

NUM_PHEROMONES == 3

(* create_pheromone_array_image: depth_or_array_layers of one array image; *)
(* make_pheromone_array_images allocates prev and next with it. The        *)
(* function takes no layer count: the argument setup passes has no         *)
(* parameter to receive it.                                                *)
create_pheromone_array_image == NUM_PHEROMONES

(* layer_count of run(): the z of the diffuse and input dispatches *)
DispatchLayerCount(cfg) == IF cfg.layer_count >= 1 THEN cfg.layer_count ELSE 1

(* switch_textures: the sprite shows the other display texture *)
SwitchTextures(image) == IF image = "texture_a" THEN "texture_b" ELSE "texture_a"

RunConfigs ==
    [run_copy_and_input : BOOLEAN, run_diffuse : BOOLEAN, run_agents : BOOLEAN]

(* The array env pass of run(): diffuse then input in one compute pass.    *)
(* ret = TRUE when run() returns before recording anything further.        *)
EnvPass(index) ==
    IF env_bind_groups = {} THEN [ret |-> FALSE, out |-> <<>>]
    ELSE IF ~GetComputePipeline(DiffuseKernel) THEN [ret |-> TRUE, out |-> <<>>]
    ELSE IF ~GetComputePipeline(InputKernel) THEN [ret |-> TRUE, out |-> <<>>]
    ELSE LET g == Some(env_bind_groups)[index]
         IN  [ret |-> FALSE,
              out |-> (IF run_config.run_diffuse
                       THEN <<Dispatch("diffuse", "pass_arr", g, DispatchLayerCount(phero_cfg))>>
                       ELSE <<>>)
                      \o (IF run_config.run_copy_and_input
                          THEN <<Dispatch("input", "pass_arr", g, DispatchLayerCount(phero_cfg))>>
                          ELSE <<>>)]

(* variant: the agent pass ignores run_agents *)
AgentPassUngated(index) ==
    <<Dispatch("agents", "pass2", Some(agent_bind_groups)[index], 1)>>

AgentPass(index) ==
    IF run_config.run_agents
    THEN <<Dispatch("agents", "pass2", Some(agent_bind_groups)[index], 1)>>
    ELSE <<>>

CompositePass(index) ==
    IF comp_bind_groups = {} THEN <<>>
    ELSE IF ~GetComputePipeline(CompositeKernel) THEN <<>>
    ELSE <<Dispatch("composite", "pass_comp", Some(comp_bind_groups)[index], 1)>>

(* variant: the agent pass is recorded before the array env pass *)
RunUpdateAgentsFirst(index) ==
    IF ~GetComputePipeline(AgentKernel) THEN <<>>
    ELSE LET e == EnvPass(index)
         IN  IF e.ret THEN <<>>
             ELSE AgentPass(index) \o e.out \o CompositePass(index)

(* AgentSimNode::run in state Update(index), bind groups present *)
RunUpdate(index) ==
    IF ~GetComputePipeline(AgentKernel) THEN <<>>
    ELSE LET e == EnvPass(index)
         IN  IF e.ret THEN <<>>
             ELSE e.out \o AgentPass(index) \o CompositePass(index)

-----------------------------------------------------------------------------
(* AgentSimNode::update as a function of the state and the pipeline cache. *)
(* The result "panic" stands for the panic! of the Loading arm.            *)

(* variant: the Loading arm never leaves Loading *)
UpdateLoadingStays(k) ==
    IF k[AgentKernel] = "Err" THEN <<"panic">> ELSE Loading

UpdateLoading(k) ==
    CASE k[AgentKernel] = "Ok"              -> Init_
      [] k[AgentKernel] = "ShaderNotLoaded" -> Loading
      [] k[AgentKernel] = "Err"             -> <<"panic">>
      [] OTHER                              -> Loading

(* variant: Init enters Update(1) *)
UpdateInitEntersOne(k) ==
    IF k[DiffuseKernel] = "Ok" /\ k[InputKernel] = "Ok" /\ k[CompositeKernel] = "Ok"
    THEN Update(1)
    ELSE Init_

(* variant: Init does not wait for the composite pipeline *)
UpdateInitSkipsComposite(k) ==
    IF k[DiffuseKernel] = "Ok" /\ k[InputKernel] = "Ok"
    THEN Update(0)
    ELSE Init_

UpdateInit(k) ==
    IF k[DiffuseKernel] = "Ok" /\ k[InputKernel] = "Ok" /\ k[CompositeKernel] = "Ok"
    THEN Update(0)
    ELSE Init_

(* variant: the Update arms do not flip the index *)
UpdateFlipSticks(i) == Update(i)

UpdateFlip(i) == Update(1 - i)

NodeUpdate(s, k) ==
    CASE s = Loading -> UpdateLoading(k)
      [] s = Init_   -> UpdateInit(k)
      [] IsUpdate(s) -> UpdateFlip(s[2])

(* the kernels whose state the arm for s queries and finds Ok *)
SeenReady(s, k) ==
    CASE s = Loading -> {x \in {AgentKernel} : k[x] = "Ok"}
      [] s = Init_   -> {x \in {DiffuseKernel, InputKernel, CompositeKernel} : k[x] = "Ok"}
      [] OTHER       -> {}

-----------------------------------------------------------------------------
(* Main world: pheromone configuration (resources.rs) and species          *)
(* authoring and upload (species.rs). f32 weights, strengths and amounts   *)
(* are integers: the code only copies, adds and negates them.              *)

Min(a, b) == IF a < b THEN a ELSE b

Max(a, b) == IF a > b THEN a ELSE b

(* largest layer_count drawn *)
MaxLayers == 5

(* largest number of authored species drawn *)
MaxSpecies == 2

(* longest explicit LayerWeights vector drawn *)
MaxWeightsLen == 6

LayerIds == 0..(MaxLayers - 1)

(* the universal layer lists drawn: empty or one layer id *)
UniversalSets == {s \in SUBSET LayerIds : Cardinality(s) <= 1}

PheromoneConfigs ==
    [layer_count : 0..MaxLayers,
     brush_target_layer : {0},
     universal_love_layers : UniversalSets,
     universal_hate_layers : UniversalSets,
     paint_only_layers : {{}}]

(* PheromoneConfig::default *)
PheromoneConfigDefault ==
    [layer_count |-> 3,
     brush_target_layer |-> 0,
     universal_love_layers |-> {},
     universal_hate_layers |-> {},
     paint_only_layers |-> {}]

(* Optional authoring components of a species entity *)
FollowOptions == {{}, {[channel |-> 1, strength |-> 2]}}

AvoidOptions == {{}, {[channel |-> 0, strength |-> 3]}}

EmitOptions == {{}, {[channel |-> 2, amount |-> 1]}}

(* LayerWeights of length n: layer li carries the authored weight li + 2 *)
LayerWeightsOfLen(n) == [i \in 1..n |-> i + 1]

LayerWOptions == {{}} \cup {{LayerWeightsOfLen(n)} : n \in 0..MaxWeightsLen}

(* The species entities drawn: every legacy combination without            *)
(* LayerWeights, and one entity with all components per LayerWeights.      *)
SpeciesEntities ==
    {e \in [follow : FollowOptions, avoid : AvoidOptions, emit : EmitOptions,
            layer_w : LayerWOptions] :
        e.layer_w # {} => (e.follow # {} /\ e.avoid # {} /\ e.emit # {})}

Vec4Zero == <<0, 0, 0, 0>>

Vec4Add(a, b) == [i \in 1..4 |-> a[i] + b[i]]

Vec4Sub(a, b) == [i \in 1..4 |-> a[i] - b[i]]

Vec4Scale(a, k) == [i \in 1..4 |-> a[i] * k]

channel_to_mask(channel) ==
    CASE channel = 0 -> <<1, 0, 0, 1>>
      [] channel = 1 -> <<0, 1, 0, 1>>
      [] channel = 2 -> <<0, 0, 1, 1>>
      [] channel = 3 -> <<0, 0, 0, 1>>
      [] OTHER       -> <<0, 0, 0, 1>>

(* SpeciesSettings, restricted to the fields the authoring components set  *)
build_species_settings_from_components(e) ==
    LET w0 == Vec4Zero
        w1 == IF e.follow # {}
              THEN Vec4Add(w0, Vec4Scale(channel_to_mask(Some(e.follow).channel),
                                         Some(e.follow).strength))
              ELSE w0
        w2 == IF e.avoid # {}
              THEN Vec4Sub(w1, Vec4Scale(channel_to_mask(Some(e.avoid).channel),
                                         Some(e.avoid).strength))
              ELSE w1
    IN  [weights |-> w2,
         emit_layer |-> IF e.emit # {} THEN Some(e.emit).channel ELSE 0,
         emit_amount |-> IF e.emit # {} THEN Some(e.emit).amount ELSE 0]

(* SpeciesSettings::red / green / blue *)
SpeciesRed == [weights |-> <<1, -1, -1, 0>>, emit_layer |-> 0, emit_amount |-> 1]

SpeciesGreen == [weights |-> <<-1, 1, -1, 0>>, emit_layer |-> 1, emit_amount |-> 1]

SpeciesBlue == [weights |-> <<-1, -1, 1, 0>>, emit_layer |-> 2, emit_amount |-> 1]

(* variant: no fallback to the default trio *)
CollectSpeciesNoFallback(ents) ==
    [i \in 1..Len(ents) |-> build_species_settings_from_components(ents[i])]

(* the `species` vector of upload_species_to_gpu *)
CollectSpecies(ents) ==
    IF Len(ents) = 0
    THEN <<SpeciesRed, SpeciesGreen, SpeciesBlue>>
    ELSE [i \in 1..Len(ents) |-> build_species_settings_from_components(ents[i])]

(* layer_w.get(si): the LayerWeights collected for species si, if any *)
LayerWGet(ents, si) == IF si + 1 <= Len(ents) THEN ents[si + 1].layer_w ELSE {}

(* variant: the explicit vector is copied one layer late *)
AuthoredWeightShifted(s, lw, layer_count, li) ==
    IF lw # {}
    THEN IF 0 < li /\ li <= Min(layer_count, Len(Some(lw))) THEN Some(lw)[li] ELSE 0
    ELSE IF li < Min(layer_count, 4) THEN s.weights[li + 1] ELSE 0

(* variant: the whole explicit vector is copied *)
ExplicitCopyCountUnclamped(layer_count, len) == len

(* variant: only x, y, z of the legacy weights are mapped *)
LegacyCopyCountXYZ(layer_count) == Min(layer_count, 3)

(* let l4 = layer_count.min(4) *)
LegacyCopyCount(layer_count) == Min(layer_count, 4)

(* let n = layer_count.min(w_override.len()) *)
ExplicitCopyCount(layer_count, len) == Min(layer_count, len)

(* weights[base + li] after the first loop: the explicit vector's first    *)
(* min(layer_count, len) entries, else the legacy vec4 in the first        *)
(* min(layer_count, 4), and 0 elsewhere.                                   *)
AuthoredWeight(s, lw, layer_count, li) ==
    IF lw # {}
    THEN IF li < ExplicitCopyCount(layer_count, Len(Some(lw)))
         THEN Some(lw)[li + 1] ELSE 0
    ELSE IF li < LegacyCopyCount(layer_count) THEN s.weights[li + 1] ELSE 0

(* the indices weights[..] that the two loops of the rebuild assign *)
WeightIndicesWritten(cfg, ents) ==
    LET layer_count == Max(cfg.layer_count, 1)
        species_count == Len(CollectSpecies(ents))
        first(si)  ==
            IF LayerWGet(ents, si) # {}
            THEN {si * layer_count + li :
                    li \in 0..(ExplicitCopyCount(layer_count,
                                                 Len(Some(LayerWGet(ents, si)))) - 1)}
            ELSE {si * layer_count + li : li \in 0..(LegacyCopyCount(layer_count) - 1)}
        second(si) ==
            {si * layer_count + li :
                li \in {l \in 0..(layer_count - 1) :
                           l \in cfg.universal_love_layers
                             \/ l \in cfg.universal_hate_layers}}
    IN  UNION {first(si) \cup second(si) : si \in 0..(species_count - 1)}

(* the indices w_override[..] that the first loop reads for species si *)
OverrideIndicesRead(cfg, ents, si) ==
    IF LayerWGet(ents, si) # {}
    THEN 0..(ExplicitCopyCount(Max(cfg.layer_count, 1),
                               Len(Some(LayerWGet(ents, si)))) - 1)
    ELSE {}

(* variant: the hate override first, then the love override *)
ApplyUniversalLoveLast(w, li, love_set, hate_set) ==
    LET w1 == IF li \in hate_set THEN -1 ELSE w
    IN  IF li \in love_set THEN 1 ELSE w1

(* variant: the universal lists are not applied *)
ApplyUniversalSkipped(w, li, love_set, hate_set) == w

(* the second loop: the love override, then the hate override *)
ApplyUniversal(w, li, love_set, hate_set) ==
    LET w1 == IF li \in love_set THEN 1 ELSE w
    IN  IF li \in hate_set THEN -1 ELSE w1

(* SpeciesLayerWeights with the contents of its buffer: a dense            *)
(* species_count x layer_count matrix, entry (si, li) at base + li.        *)
BuildLayerWeights(cfg, ents) ==
    LET species == CollectSpecies(ents)
        layer_count == Max(cfg.layer_count, 1)
        species_count == Len(species)
    IN  [weights |->
            [k \in 1..(layer_count * species_count) |->
                LET si == (k - 1) \div layer_count
                    li == (k - 1) % layer_count
                IN  ApplyUniversal(
                        AuthoredWeight(species[si + 1], LayerWGet(ents, si),
                                       layer_count, li),
                        li, cfg.universal_love_layers, cfg.universal_hate_layers)],
         layer_count |-> layer_count,
         species_count |-> species_count]

(* the shader's read of weight (si, li) from the dense matrix *)
WeightAt(slw, si, li) == slw.weights[si * slw.layer_count + li + 1]

-----------------------------------------------------------------------------
(* Agent seeding (agents.rs). The two random draws of an agent are a      *)
(* direction (cos, sin) of the angle, given in fifths, and the value of    *)
(* sqrt(u) for u in [0, 1), given in RadialSteps-ths. Positions and        *)
(* lengths are exact multiples of 1 / PosScale.                            *)

(* number of values of sqrt(u) drawn: 0, 1/RadialSteps, ... below 1 *)
RadialSteps == 3

(* largest num_agents drawn *)
MaxAgents == 3

(* largest species_count drawn *)
MaxSpeciesCount == 3

Directions == {<<3, 4>>, <<-4, 3>>, <<-3, -4>>, <<4, -3>>}

Draws == [dir : Directions, rad : 0..(RadialSteps - 1)]

PosScale == 50 * RadialSteps

FieldSizes == {<<4, 2>>, <<2, 4>>, <<3, 3>>}

SeedArgs ==
    [size : FieldSizes, num_agents : 0..MaxAgents, species_count : 0..MaxSpeciesCount]

Abs(x) == IF x < 0 THEN -x ELSE x

(* the largest l in lo..hi with l * l <= n *)
RECURSIVE SqrtSearch(_, _, _)
SqrtSearch(n, lo, hi) ==
    IF lo >= hi THEN lo
    ELSE LET mid == (lo + hi + 1) \div 2
         IN  IF mid <= n \div mid
             THEN SqrtSearch(n, mid, hi)
             ELSE SqrtSearch(n, lo, mid - 1)

(* Vec2::length; the squared length of the vectors drawn is a perfect      *)
(* square                                                                  *)
Length(v) == SqrtSearch(v[1] * v[1] + v[2] * v[2], 0, Abs(v[1]) + Abs(v[2]))

(* variant: Vec2::normalize, which yields NaN components for the zero      *)
(* vector                                                                  *)
normalize(v) ==
    IF v = <<0, 0>>
    THEN [nan |-> TRUE, dir |-> <<0, 0>>]
    ELSE [nan |-> FALSE,
          dir |-> <<(v[1] * 5) \div Length(v), (v[2] * 5) \div Length(v)>>]

(* Vec2::normalize_or_zero: the unit vector (in fifths), or zero *)
normalize_or_zero(v) ==
    IF v = <<0, 0>>
    THEN [nan |-> FALSE, dir |-> <<0, 0>>]
    ELSE [nan |-> FALSE,
          dir |-> <<(v[1] * 5) \div Length(v), (v[2] * 5) \div Length(v)>>]

(* y.atan2(x) of a unit or zero vector: the angle is kept as its           *)
(* direction; atan2(0, 0) is the angle 0; NaN stays NaN.                   *)
atan2(d) ==
    IF d.nan THEN [nan |-> TRUE, dir |-> <<0, 0>>]
    ELSE IF d.dir = <<0, 0>> THEN [nan |-> FALSE, dir |-> <<5, 0>>]
    ELSE [nan |-> FALSE, dir |-> d.dir]

(* variant: the species index starts at 1 *)
SpeciesIndexShifted(i, species_count) == (i + 1) % species_count

(* let index = i % species_count *)
SpeciesIndex(i, species_count) == i % species_count

(* the i-th iteration of the loop of generate_agents *)
GenerateAgent(size, species_count, i, draw) ==
    LET center == <<(size[1] * PosScale) \div 2, (size[2] * PosScale) \div 2>>
        radius == (Min(size[1], size[2]) * PosScale * 2) \div 5
        r      == (radius * draw.rad) \div RadialSteps
        pos    == <<center[1] + (draw.dir[1] * r) \div 5,
                    center[2] + (draw.dir[2] * r) \div 5>>
        dir_vec == normalize_or_zero(<<center[1] - pos[1], center[2] - pos[2]>>)
    IN  [position |-> pos,
         angle |-> atan2(dir_vec),
         species_index |-> SpeciesIndex(i, species_count)]

(* i % species_count panics when species_count is 0; the loop body runs    *)
(* when num_agents > 0.                                                    *)
GenerateAgentsPanics(args) == args.num_agents > 0 /\ args.species_count = 0

(* generate_agents for the draws rnd[1..num_agents] *)
generate_agents(args, rnd) ==
    [k \in 1..args.num_agents |->
        GenerateAgent(args.size, args.species_count, k - 1, rnd[k])]

(* the constants setup passes to init_agents; NUM_AGENTS is 100_000 in the *)
(* source                                                                  *)
SIZE == <<1920, 1080>>

NUM_AGENTS == 3

SetupSpeciesCount == 3

SetupSeedArgs ==
    [size |-> SIZE, num_agents |-> NUM_AGENTS, species_count |-> SetupSpeciesCount]

(* Per-frame uniforms (setup.rs). Coordinates are whole cells. An f32 in   *)
(* [0, 1] (a rate, a power, a factor) is the nearest multiple of           *)
(* 1 / FloatSteps, so that a computed value is rounded once, as an f32     *)
(* result is.                                                              *)

(* resolution of the values in [0, 1] *)
FloatSteps == 40

(* largest frame time drawn, in seconds *)
MaxDt == 4

(* number of frames run *)
MaxFrames == 2

(* how far inside and outside the field edges pointer positions are drawn *)
MouseOutside == 1

DISPLAY_FACTOR == 1

(* a / b rounded to the nearest integer *)
RoundDiv(a, b) == (2 * a + b) \div (2 * b)

(* the f32 value of the literal n / d *)
F32(n, d) == RoundDiv(n * FloatSteps, d)

RECURSIVE Pow(_, _)
Pow(b, n) == IF n = 0 THEN 1 ELSE b * Pow(b, n - 1)

(* base.powf(dt): 1 for dt = 0, else base^dt, rounded *)
powf(base, dt) ==
    IF dt = 0 THEN FloatSteps
    ELSE RoundDiv(Pow(base, dt), Pow(FloatSteps, dt - 1))

(* variant: the power itself is returned *)
per_frame_factor_pow(rate, dt) ==
    LET base == FloatSteps - rate
    IN  powf(base, dt)

per_frame_factor(rate, dt) ==
    LET base == FloatSteps - rate
    IN  FloatSteps - powf(base, dt)

(* the `defaults` table of setup and its fallback, (diffusion, decay) *)
LayerParamDefault(i) ==
    CASE i = 0 -> [diffusion |-> F32(4, 10), decay |-> F32(7, 10)]
      [] i = 1 -> [diffusion |-> F32(4, 10), decay |-> F32(7, 10)]
      [] i = 2 -> [diffusion |-> F32(5, 10), decay |-> F32(8, 10)]
      [] i = 3 -> [diffusion |-> F32(6, 10), decay |-> F32(85, 100)]
      [] i = 4 -> [diffusion |-> F32(7, 10), decay |-> F32(9, 10)]
      [] OTHER -> [diffusion |-> F32(5, 10), decay |-> F32(8, 10)]

(* layer_params of setup for phero_cfg.layer_count.max(1) layers *)
SetupLayerParams(cfg) ==
    [k \in 1..Max(cfg.layer_count, 1) |-> LayerParamDefault(k - 1)]

(* the `upload` vector of update_layer_params_buffer *)
UploadLayerParams(params, dt) ==
    [k \in 1..Len(params) |->
        [diffusion |-> per_frame_factor(params[k].diffusion, dt),
         decay |-> per_frame_factor(params[k].decay, dt)]]

(* GlobalUniforms inserted by setup; delta_time is a fraction of a second *)
SetupGlobals ==
    [delta_time |-> <<1, 100>>,
     frame |-> 0,
     mouse_position |-> <<-10000, -10000>>,
     screen_size |-> SIZE,
     left_button_pressed |-> 0,
     right_button_pressed |-> 0]

clamp(x, lo, hi) == IF x < lo THEN lo ELSE IF x > hi THEN hi ELSE x

(* the pointer position update_globals_uniform computes *)
MouseToTex(g, mouse_pos) ==
    LET tex0 == <<mouse_pos[1] \div DISPLAY_FACTOR + g.screen_size[1] \div 2,
                  mouse_pos[2] \div DISPLAY_FACTOR + g.screen_size[2] \div 2>>
        x1   == clamp(tex0[1], 0, g.screen_size[1] - 1)
        y1   == clamp(tex0[2], 0, g.screen_size[2] - 1)
        y2   == g.screen_size[2] - y1
    IN  <<x1, y2>>

(* pointer coordinates drawn along one axis of a field of the given        *)
(* extent: around both edges and the centre                                *)
MouseCoords(extent) ==
    LET half == extent \div 2
    IN  ((-half - MouseOutside)..(-half + MouseOutside))
          \cup {0}
          \cup ((half - MouseOutside)..(half + MouseOutside))

MouseButtonStates == [left_pressed : BOOLEAN, right_pressed : BOOLEAN]

FrameSystems == {"update_globals_uniform", "update_layer_params_buffer"}

(* Brush layer selection (input.rs) *)

(* largest number of MouseWheel events read in one frame *)
MaxWheelEvents == 2

(* the sign of ev.y of each MouseWheel event of a frame *)
WheelEvents == UNION {[1..n -> {-1, 0, 1}] : n \in 0..MaxWheelEvents}

(* indices of the `keys` array: Digit0 .. Digit9 *)
DigitKeys == 0..9

(* the digit keys just pressed in a frame: none, one or two *)
KeyPresses == {ks \in SUBSET DigitKeys : Cardinality(ks) <= 2}

(* the loop over wheel.read() *)
RECURSIVE WheelDelta(_)
WheelDelta(evs) ==
    IF Len(evs) = 0 THEN 0
    ELSE WheelDelta(SubSeq(evs, 1, Len(evs) - 1))
            + (IF evs[Len(evs)] > 0 THEN 1 ELSE IF evs[Len(evs)] < 0 THEN -1 ELSE 0)

(* the % of i32: the remainder has the sign of the dividend *)
Rem(a, b) == IF a >= 0 THEN a % b ELSE -((-a) % b)

(* variant: a negative remainder is not wrapped *)
WheelNextNoWrap(cur, delta, layers) == Rem(cur + delta, layers)

WheelNext(cur, delta, layers) ==
    LET next == Rem(cur + delta, layers)
    IN  IF next < 0 THEN next + layers ELSE next

(* variant: a frame moves the layer by one step at most *)
handle_mouse_wheel_layer_single(cfg, evs) ==
    LET delta == WheelDelta(evs)
    IN  IF delta # 0
        THEN [cfg EXCEPT !.brush_target_layer =
                 WheelNext(cfg.brush_target_layer, IF delta > 0 THEN 1 ELSE -1,
                           Max(cfg.layer_count, 1))]
        ELSE cfg

handle_mouse_wheel_layer(cfg, evs) ==
    LET delta == WheelDelta(evs)
    IN  IF delta # 0
        THEN [cfg EXCEPT !.brush_target_layer =
                 WheelNext(cfg.brush_target_layer, delta, Max(cfg.layer_count, 1))]
        ELSE cfg

(* the first pressed key in array order *)
FirstPressed(ks) == CHOOSE k \in ks : \A j \in ks : k <= j

(* variant: without a pressed digit the layer falls back to 0 *)
handle_brush_hotkeys_resets(cfg, ks) ==
    LET v == IF ks # {} THEN FirstPressed(ks) ELSE 0
    IN  [cfg EXCEPT !.brush_target_layer = Min(v, Max(cfg.layer_count - 1, 0))]

(* variant: the digit is stored without clamping *)
handle_brush_hotkeys_unclamped(cfg, ks) ==
    IF ks # {}
    THEN [cfg EXCEPT !.brush_target_layer = FirstPressed(ks)]
    ELSE cfg

handle_brush_hotkeys(cfg, ks) ==
    IF ks # {}
    THEN LET max_layer == Max(cfg.layer_count - 1, 0)
         IN  [cfg EXCEPT !.brush_target_layer = Min(FirstPressed(ks), max_layer)]
    ELSE cfg

-----------------------------------------------------------------------------
(* The split-node pipeline (diffusion.rs, agent.rs): DiffusionNode and     *)
(* AgentNode, each with its own state machine over its own pipeline.       *)

DiffusionKernel == "update_pipeline"

AgentNodeKernel == "pipeline"

SplitKernels == {DiffusionKernel, AgentNodeKernel}

SplitNodes == {"DiffusionNode", "AgentNode"}

(* bind_group_0 / bind_group_1 of diffusion.rs prepare_bind_group *)
DiffusionImageBindGroups ==
    [i \in {0, 1} |->
        IF i = 0 THEN [input |-> "texture_a", output |-> "texture_b"]
                 ELSE [input |-> "texture_b", output |-> "texture_a"]]

(* bind_group_0 / bind_group_1 of agent.rs prepare_bind_group *)
AgentBindGroup ==
    [i \in {0, 1} |->
        IF i = 0 THEN [input |-> "texture_a", output |-> "texture_b"]
                 ELSE [input |-> "texture_b", output |-> "texture_a"]]

(* DiffusionNode::update; <<"panic">> stands for the panic! of the Loading arm *)
DiffusionNodeUpdate(s, k) ==
    IF s = Loading
    THEN CASE k[DiffusionKernel] = "Ok"  -> Update(0)
           [] k[DiffusionKernel] = "Err" -> <<"panic">>
           [] OTHER                      -> Loading
    ELSE Update(1 - s[2])

(* AgentNode::update *)
AgentNodeUpdate(s, k) ==
    IF s = Loading
    THEN IF k[AgentNodeKernel] = "Ok" THEN Update(1) ELSE Loading
    ELSE Update(1 - s[2])

(* DiffusionNode::run: get_compute_pipeline(..).unwrap() in the Update arm *)
DiffusionNodeRunPanics(s, k) == IsUpdate(s) /\ k[DiffusionKernel] # "Ok"

DiffusionNodeRun(s) ==
    IF IsUpdate(s)
    THEN <<[node |-> "DiffusionNode", index |-> s[2],
            group |-> DiffusionImageBindGroups[s[2]]]>>
    ELSE <<>>

(* AgentNode::run *)
AgentNodeRun(s, k) ==
    IF IsUpdate(s) /\ k[AgentNodeKernel] = "Ok"
    THEN <<[node |-> "AgentNode", index |-> s[2], group |-> AgentBindGroup[s[2]]]>>
    ELSE <<>>

(* The render world after construction: AgentSimNode::from_world, an empty *)
(* pipeline cache queue, nothing prepared yet.                             *)
RenderInit ==
    /\ state = Loading
    /\ kernel = [k \in Kernels |-> "Queued"]
    /\ resolved = {}
    /\ agent_bind_groups = {}
    /\ env_bind_groups = {}
    /\ comp_bind_groups = {}
    /\ run_config = [run_copy_and_input |-> TRUE, run_diffuse |-> TRUE, run_agents |-> TRUE]
    /\ phase = "extract"
    /\ cmds = <<>>
    /\ lastDeposit = "none"
    /\ observed = {}

(* No sprite and no array images before setup has run *)
DisplayInit ==
    /\ sprite = {}
    /\ phero_array = {}

(* The sprite and the array images as setup leaves them *)
DisplaySetup ==
    /\ sprite = {"texture_a"}
    /\ phero_array = {create_pheromone_array_image}

(* DiffusionNode::default, AgentNode::default, an empty pipeline cache queue *)
SplitInit ==
    /\ diffusion_state = Loading
    /\ agent_state = Loading
    /\ split_kernel = [k \in SplitKernels |-> "Queued"]
    /\ split_pending = {}
    /\ split_cmds = <<>>

(* The main world before its Startup systems have run *)
CfgInit == phero_cfg = PheromoneConfigDefault

SpeciesInit ==
    /\ species_authored = <<>>
    /\ species_gpu = {}
    /\ species_layer_weights = {}

SeedInit ==
    /\ seed_args = <<>>
    /\ agents_cpu = {}

FrameInit ==
    /\ globals = {}
    /\ layer_params_cpu = {}
    /\ layer_params_buf = {}
    /\ time_delta = 0
    /\ pending = {}

FactorInit ==
    /\ factor_args = <<>>
    /\ factor_out = {}

(* no input has been handled yet *)
InputInit ==
    /\ last_input = {}
    /\ prev_step_up = {}

Init ==
    /\ RenderInit
    /\ panicked = FALSE
    /\ CfgInit
    /\ SpeciesInit
    /\ SeedInit
    /\ FrameInit
    /\ FactorInit
    /\ InputInit
    /\ DisplaySetup
    /\ SplitInit

(* Start of a frame: the main world's Update has run switch_textures once, *)
(* the resources are extracted into the render world (AgentSimRunConfig is *)
(* the value setup inserted; nothing writes it afterwards) and the frame   *)
(* gets a fresh command encoder.                                           *)
Extract ==
    /\ ~panicked
    /\ phase = "extract"
    /\ cmds' = <<>>
    /\ phase' = "prepare"
    /\ sprite' = IF sprite = {} THEN {} ELSE {SwitchTextures(Some(sprite))}
    /\ UNCHANGED <<state, kernel, resolved, agent_bind_groups, env_bind_groups,
                   comp_bind_groups, run_config, lastDeposit, observed, panicked,
                   appVars>>

(* A GPU image or extracted resource becomes available in the render world *)
ResolveResource ==
    /\ ~panicked
    /\ phase = "prepare"
    /\ \E r \in Resources \ resolved : resolved' = resolved \cup {r}
    /\ UNCHANGED <<state, kernel, agent_bind_groups, env_bind_groups,
                   comp_bind_groups, run_config, phase, cmds, lastDeposit,
                   observed, panicked, sprite, appVars>>

(* The pipeline cache processes its queue *)
PipelineCacheStep ==
    /\ ~panicked
    /\ phase = "prepare"
    /\ \E k \in Kernels : \E s \in KernelSucc(kernel[k]) :
           kernel' = [kernel EXCEPT ![k] = s]
    /\ UNCHANGED <<state, resolved, agent_bind_groups, env_bind_groups,
                   comp_bind_groups, run_config, phase, cmds, lastDeposit,
                   observed, panicked, sprite, appVars>>

(* prepare_bind_group: returns early while a resource is unresolved,       *)
(* otherwise inserts the three bind-group resources.                       *)
PrepareBindGroup ==
    /\ ~panicked
    /\ phase = "prepare"
    /\ phase' = "update"
    /\ IF Resources \subseteq resolved
       THEN /\ agent_bind_groups' = {AgentBindGroups}
            /\ LET a == CreatePheroArrayBindGroups(resolved)
               IN  IF a # {}
                   THEN /\ env_bind_groups' = {Some(a).env}
                        /\ comp_bind_groups' = {Some(a).comp}
                   ELSE UNCHANGED <<env_bind_groups, comp_bind_groups>>
       ELSE UNCHANGED <<agent_bind_groups, env_bind_groups, comp_bind_groups>>
    /\ UNCHANGED <<state, kernel, resolved, run_config, cmds, lastDeposit,
                   observed, panicked, sprite, appVars>>

(* AgentSimNode::update *)
NodeUpdateStep ==
    /\ ~panicked
    /\ phase = "update"
    /\ LET n == NodeUpdate(state, kernel)
       IN  IF n = <<"panic">>
           THEN /\ panicked' = TRUE
                /\ UNCHANGED <<state, phase, observed>>
           ELSE /\ state' = n
                /\ phase' = "run"
                /\ observed' = observed \cup SeenReady(state, kernel)
                /\ UNCHANGED panicked
    /\ UNCHANGED <<kernel, resolved, agent_bind_groups, env_bind_groups,
                   comp_bind_groups, run_config, cmds, lastDeposit, sprite, appVars>>

(* AgentSimNode::run *)
NodeRun ==
    /\ ~panicked
    /\ phase = "run"
    /\ IF agent_bind_groups = {}
       THEN \* world.resource::<AgentSimImageBindGroups>() panics
            /\ panicked' = TRUE
            /\ UNCHANGED <<phase, cmds, lastDeposit>>
       ELSE /\ cmds' = IF IsUpdate(state) THEN RunUpdate(state[2]) ELSE <<>>
            /\ lastDeposit' =
                 IF \E j \in 1..Len(cmds') : cmds'[j].stage = "agents"
                 THEN LET j == CHOOSE j \in 1..Len(cmds') : cmds'[j].stage = "agents"
                      IN  cmds'[j].group.phero
                 ELSE lastDeposit
            /\ phase' = "extract"
            /\ UNCHANGED panicked
    /\ UNCHANGED <<state, kernel, resolved, agent_bind_groups, env_bind_groups,
                   comp_bind_groups, run_config, observed, sprite, appVars>>

Next ==
    \/ Extract
    \/ ResolveResource
    \/ PipelineCacheStep
    \/ PrepareBindGroup
    \/ NodeUpdateStep
    \/ NodeRun

Spec == Init /\ [][Next]_vars

TypeOK ==
    /\ state \in AgentSimStates
    /\ kernel \in [Kernels -> KernelStates]
    /\ resolved \subseteq Resources
    /\ run_config \in RunConfigs
    /\ phase \in {"extract", "prepare", "update", "run"}
    /\ lastDeposit \in FieldCopies \cup {"none"}
    /\ observed \subseteq Kernels
    /\ panicked \in BOOLEAN

-----------------------------------------------------------------------------
(* Species upload for every drawn configuration and set of authored        *)
(* species.                                                                *)

SpeciesLists == UNION {[1..n -> SpeciesEntities] : n \in 0..MaxSpecies}

InitSpecies ==
    /\ RenderInit
    /\ panicked = FALSE
    /\ phero_cfg \in PheromoneConfigs
    /\ species_authored \in SpeciesLists
    /\ species_gpu = {}
    /\ species_layer_weights = {}
    /\ SeedInit
    /\ FrameInit
    /\ FactorInit
    /\ InputInit
    /\ DisplayInit
    /\ SplitInit

(* upload_species_to_gpu (Startup) *)
UploadSpeciesToGpu ==
    /\ species_layer_weights = {}
    /\ species_gpu' = {CollectSpecies(species_authored)}
    /\ species_layer_weights' = {BuildLayerWeights(phero_cfg, species_authored)}
    /\ UNCHANGED <<renderVars, panicked, phero_cfg, species_authored, seedVars,
                   frameVars, factorVars, inputVars, phero_array, splitVars>>

NextSpecies == UploadSpeciesToGpu

SpecSpecies == InitSpecies /\ [][NextSpecies]_vars

-----------------------------------------------------------------------------
(* generate_agents for every drawn argument list and every drawn sequence  *)
(* of random values.                                                       *)

InitSeed ==
    /\ RenderInit
    /\ panicked = FALSE
    /\ CfgInit
    /\ SpeciesInit
    /\ seed_args \in SeedArgs
    /\ agents_cpu = {}
    /\ FrameInit
    /\ FactorInit
    /\ InputInit
    /\ DisplayInit
    /\ SplitInit

(* a call generate_agents(size, num_agents, species_count) *)
GenerateAgentsCall ==
    /\ ~panicked
    /\ agents_cpu = {}
    /\ IF GenerateAgentsPanics(seed_args)
       THEN /\ panicked' = TRUE
            /\ UNCHANGED agents_cpu
       ELSE /\ \E rnd \in [1..seed_args.num_agents -> Draws] :
                  agents_cpu' = {generate_agents(seed_args, rnd)}
            /\ UNCHANGED panicked
    /\ UNCHANGED <<renderVars, phero_cfg, speciesVars, seed_args, frameVars,
                   factorVars, inputVars, phero_array, splitVars>>

NextSeed == GenerateAgentsCall

SpecSeed == InitSeed /\ [][NextSeed]_vars

-----------------------------------------------------------------------------
(* Startup: setup and upload_species_to_gpu, in either order, for every    *)
(* drawn number of authored species.                                       *)

(* largest number of authored species drawn for the startup *)
MaxAuthored == 4

(* a species entity with no optional component *)
PlainSpecies == [follow |-> {}, avoid |-> {}, emit |-> {}, layer_w |-> {}]

InitStartup ==
    /\ RenderInit
    /\ panicked = FALSE
    /\ CfgInit
    /\ species_authored \in {[i \in 1..n |-> PlainSpecies] : n \in 0..MaxAuthored}
    /\ species_gpu = {}
    /\ species_layer_weights = {}
    /\ SeedInit
    /\ FrameInit
    /\ FactorInit
    /\ InputInit
    /\ DisplayInit
    /\ SplitInit

(* setup (Startup): the uniforms, the per-layer parameters with the raw    *)
(* rates, the run configuration and the agents.                            *)
Setup ==
    /\ ~panicked
    /\ agents_cpu = {}
    /\ globals' = {SetupGlobals}
    /\ layer_params_cpu' = {SetupLayerParams(phero_cfg)}
    /\ layer_params_buf' = {SetupLayerParams(phero_cfg)}
    /\ run_config' = [run_copy_and_input |-> TRUE, run_diffuse |-> TRUE, run_agents |-> TRUE]
    /\ sprite' = {"texture_a"}
    /\ phero_array' = {create_pheromone_array_image}
    /\ seed_args' = SetupSeedArgs
    /\ IF GenerateAgentsPanics(SetupSeedArgs)
       THEN /\ panicked' = TRUE
            /\ UNCHANGED agents_cpu
       ELSE /\ \E rnd \in [1..SetupSeedArgs.num_agents -> Draws] :
                  agents_cpu' = {generate_agents(SetupSeedArgs, rnd)}
            /\ UNCHANGED panicked
    /\ UNCHANGED <<state, kernel, resolved, agent_bind_groups, env_bind_groups,
                   comp_bind_groups, phase, cmds, lastDeposit, observed,
                   phero_cfg, speciesVars, time_delta, pending, factorVars, inputVars,
                   splitVars>>

(* the three entities of spawn_default_species, in spawn order *)
DefaultSpeciesEntities ==
    <<[follow |-> {[channel |-> 2, strength |-> 1]},
       avoid  |-> {[channel |-> 3, strength |-> 1]},
       emit   |-> {[channel |-> 2, amount |-> 1]},
       layer_w |-> {<<0, 0, 1, -1, 0>>}],
      [follow |-> {[channel |-> 3, strength |-> 1]},
       avoid  |-> {[channel |-> 4, strength |-> 1]},
       emit   |-> {[channel |-> 3, amount |-> 1]},
       layer_w |-> {<<0, 0, 0, 1, -1>>}],
      [follow |-> {[channel |-> 4, strength |-> 1]},
       avoid  |-> {[channel |-> 2, strength |-> 1]},
       emit   |-> {[channel |-> 4, amount |-> 1]},
       layer_w |-> {<<0, 0, -1, 0, 1>>}]>>

DefaultsSpawned ==
    \E i \in 1..Len(species_authored) : species_authored[i] = DefaultSpeciesEntities[1]

(* spawn_default_species (Startup, SpeciesAuthoringPlugin): runs once, in   *)
(* no fixed order with the species upload                                  *)
SpawnDefaultSpecies ==
    /\ ~DefaultsSpawned
    /\ species_authored' = species_authored \o DefaultSpeciesEntities
    /\ UNCHANGED <<renderVars, panicked, phero_cfg, species_gpu, species_layer_weights,
                   seedVars, frameVars, factorVars, inputVars, phero_array, splitVars>>

NextStartup ==
    \/ Setup
    \/ UploadSpeciesToGpu
    \/ SpawnDefaultSpecies

SpecStartup == InitStartup /\ [][NextStartup]_vars

-----------------------------------------------------------------------------
(* The brush layer handlers for every drawn configuration and every drawn  *)
(* input of a frame; the two handlers run in either order.                 *)

(* the configurations the input handlers start from: every layer_count,    *)
(* with the three layer lists empty (PheromoneConfig::default) or each      *)
(* naming a layer of its own                                                *)
InputConfigs ==
    {c \in PheromoneConfigs : c.universal_love_layers = {}
                                /\ c.universal_hate_layers = {}}
    \cup {[layer_count |-> n,
           brush_target_layer |-> 0,
           universal_love_layers |-> {1},
           universal_hate_layers |-> {0},
           paint_only_layers |-> {2}] : n \in 0..MaxLayers}

InitInput ==
    /\ RenderInit
    /\ panicked = FALSE
    /\ phero_cfg \in InputConfigs
    /\ SpeciesInit
    /\ SeedInit
    /\ FrameInit
    /\ FactorInit
    /\ InputInit
    /\ DisplayInit
    /\ SplitInit

(* the layer a wheel step of one unit up started from, if the last handler *)
(* was such a step                                                         *)
StepUpOf(inp) ==
    IF inp # {} /\ Some(inp).system = "handle_mouse_wheel_layer"
                /\ WheelDelta(Some(inp).events) = 1
    THEN {Some(inp).layer_before}
    ELSE {}

(* handle_mouse_wheel_layer (Update) with the MouseWheel messages of the   *)
(* frame                                                                   *)
MouseWheelLayer ==
    /\ \E evs \in WheelEvents :
          /\ phero_cfg' = handle_mouse_wheel_layer(phero_cfg, evs)
          /\ last_input' = {[system |-> "handle_mouse_wheel_layer", events |-> evs,
                             layer_before |-> phero_cfg.brush_target_layer]}
    /\ prev_step_up' = StepUpOf(last_input)
    /\ UNCHANGED <<renderVars, panicked, speciesVars, seedVars, frameVars, factorVars,
                   phero_array, splitVars>>

(* handle_brush_hotkeys (Update) with the digit keys just pressed *)
BrushHotkeys ==
    /\ \E ks \in KeyPresses :
          /\ phero_cfg' = handle_brush_hotkeys(phero_cfg, ks)
          /\ last_input' = {[system |-> "handle_brush_hotkeys", events |-> ks,
                             layer_before |-> phero_cfg.brush_target_layer]}
    /\ prev_step_up' = {}
    /\ UNCHANGED <<renderVars, panicked, speciesVars, seedVars, frameVars, factorVars,
                   phero_array, splitVars>>

NextInput ==
    \/ MouseWheelLayer
    \/ BrushHotkeys

SpecInput == InitInput /\ [][NextInput]_vars

-----------------------------------------------------------------------------
(* The per-frame systems update_globals_uniform and                        *)
(* update_layer_params_buffer after setup, for every drawn layer_count,    *)
(* frame time, pointer position and button state.                          *)

InitFrame ==
    /\ RenderInit
    /\ panicked = FALSE
    /\ phero_cfg \in {c \in PheromoneConfigs :
                        c.universal_love_layers = {} /\ c.universal_hate_layers = {}}
    /\ SpeciesInit
    /\ SeedInit
    /\ globals = {SetupGlobals}
    /\ layer_params_cpu = {SetupLayerParams(phero_cfg)}
    /\ layer_params_buf = {SetupLayerParams(phero_cfg)}
    /\ time_delta = 0
    /\ pending = {}
    /\ FactorInit
    /\ InputInit
    /\ DisplayInit
    /\ SplitInit

(* a new frame starts: Time is advanced, every per-frame system is due *)
TimeUpdate ==
    /\ pending = {}
    /\ Some(globals).frame < MaxFrames
    /\ \E dt \in 0..MaxDt : time_delta' = dt
    /\ pending' = FrameSystems
    /\ UNCHANGED <<renderVars, panicked, phero_cfg, speciesVars, seedVars, globals,
                   layer_params_cpu, layer_params_buf, factorVars, inputVars, phero_array, splitVars>>

(* update_globals_uniform *)
UpdateGlobalsUniform ==
    /\ "update_globals_uniform" \in pending
    /\ pending' = pending \ {"update_globals_uniform"}
    /\ LET g == Some(globals)
       IN  \E mx \in MouseCoords(g.screen_size[1]), my \in MouseCoords(g.screen_size[2]),
              b \in MouseButtonStates :
               globals' = {[g EXCEPT
                   !.mouse_position = MouseToTex(g, <<mx, my>>),
                   !.delta_time = <<time_delta, 1>>,
                   !.frame = g.frame + 1,
                   !.left_button_pressed = IF b.left_pressed THEN 1 ELSE 0,
                   !.right_button_pressed = IF b.right_pressed THEN 1 ELSE 0]}
    /\ UNCHANGED <<renderVars, panicked, phero_cfg, speciesVars, seedVars,
                   layer_params_cpu, layer_params_buf, time_delta, factorVars, inputVars, phero_array, splitVars>>

(* update_layer_params_buffer *)
UpdateLayerParamsBuffer ==
    /\ "update_layer_params_buffer" \in pending
    /\ pending' = pending \ {"update_layer_params_buffer"}
    /\ LET dt == time_delta
       IN  IF dt <= 0
           THEN UNCHANGED layer_params_buf
           ELSE layer_params_buf' = {UploadLayerParams(Some(layer_params_cpu), dt)}
    /\ UNCHANGED <<renderVars, panicked, phero_cfg, speciesVars, seedVars, globals,
                   layer_params_cpu, time_delta, factorVars, inputVars, phero_array, splitVars>>

NextFrame ==
    \/ TimeUpdate
    \/ UpdateGlobalsUniform
    \/ UpdateLayerParamsBuffer

SpecFrame == InitFrame /\ [][NextFrame]_vars

-----------------------------------------------------------------------------
(* per_frame_factor for every drawn rate in [0, 1) and pair of frame times *)

FactorArgs == [rate : 0..(FloatSteps - 1), dt1 : 0..MaxDt, dt2 : 0..MaxDt]

InitFactor ==
    /\ RenderInit
    /\ panicked = FALSE
    /\ CfgInit
    /\ SpeciesInit
    /\ SeedInit
    /\ FrameInit
    /\ factor_args \in FactorArgs
    /\ factor_out = {}
    /\ InputInit
    /\ DisplayInit
    /\ SplitInit

(* per_frame_factor(rate, dt1) and per_frame_factor(rate, dt2) *)
EvalPerFrameFactor ==
    /\ factor_out = {}
    /\ factor_out' = {[f1 |-> per_frame_factor(factor_args.rate, factor_args.dt1),
                       f2 |-> per_frame_factor(factor_args.rate, factor_args.dt2)]}
    /\ UNCHANGED <<renderVars, panicked, phero_cfg, speciesVars, seedVars, frameVars,
                   factor_args, inputVars, phero_array, splitVars>>

NextFactor == EvalPerFrameFactor

SpecFactor == InitFactor /\ [][NextFactor]_vars

-----------------------------------------------------------------------------
(* The render node after a setup under every drawn layer_count: the array  *)
(* images are allocated by setup, the dispatch depth is read by run.       *)

InitDepth ==
    /\ RenderInit
    /\ panicked = FALSE
    /\ phero_cfg \in {c \in PheromoneConfigs : c.universal_love_layers = {}
                                                /\ c.universal_hate_layers = {}}
    /\ SpeciesInit
    /\ SeedInit
    /\ FrameInit
    /\ FactorInit
    /\ InputInit
    /\ DisplaySetup
    /\ SplitInit

SpecDepth == InitDepth /\ [][Next]_vars

-----------------------------------------------------------------------------
(* The render node under every AgentSimRunConfig the main world can have   *)
(* inserted: the extracted value is the same in every frame.               *)

InitConfig ==
    /\ state = Loading
    /\ kernel = [k \in Kernels |-> "Queued"]
    /\ resolved = {}
    /\ agent_bind_groups = {}
    /\ env_bind_groups = {}
    /\ comp_bind_groups = {}
    /\ run_config \in RunConfigs
    /\ phase = "extract"
    /\ cmds = <<>>
    /\ lastDeposit = "none"
    /\ observed = {}
    /\ panicked = FALSE
    /\ CfgInit
    /\ SpeciesInit
    /\ SeedInit
    /\ FrameInit
    /\ FactorInit
    /\ InputInit
    /\ DisplaySetup
    /\ SplitInit

SpecConfig == InitConfig /\ [][Next]_vars

-----------------------------------------------------------------------------
(* The render node with the frame loop kept running: the render schedule  *)
(* runs extract, prepare_bind_group, the node's update and the node's run  *)
(* once in every frame for as long as the application has not aborted, so   *)
(* each of the four steps is weakly fair. The pipeline cache and the asset  *)
(* server are not scheduled fairly: a kernel may stay queued for ever.      *)

FrameLoopFair ==
    /\ WF_vars(Extract)
    /\ WF_vars(PrepareBindGroup)
    /\ WF_vars(NodeUpdateStep)
    /\ WF_vars(NodeRun)

SpecLive == Init /\ [][Next]_vars /\ FrameLoopFair

-----------------------------------------------------------------------------
(* The split-node pipeline frame by frame: the pipeline cache moves        *)
(* between frames, both nodes are updated in either order, then the graph  *)
(* runs DiffusionNode before AgentNode (add_node_edge).                    *)

(* The pipeline cache processes its queue between two frames *)
SplitPipelineCacheStep ==
    /\ ~panicked
    /\ split_pending = {}
    /\ \E k \in SplitKernels : \E st \in KernelSucc(split_kernel[k]) :
           split_kernel' = [split_kernel EXCEPT ![k] = st]
    /\ UNCHANGED <<renderVars, panicked, phero_cfg, speciesVars, seedVars, frameVars,
                   factorVars, inputVars, phero_array, diffusion_state, agent_state,
                   split_pending, split_cmds>>

(* A frame of the render graph starts with a fresh command encoder *)
SplitBeginFrame ==
    /\ ~panicked
    /\ split_pending = {}
    /\ split_pending' = SplitNodes \cup {"run"}
    /\ split_cmds' = <<>>
    /\ UNCHANGED <<renderVars, panicked, phero_cfg, speciesVars, seedVars, frameVars,
                   factorVars, inputVars, phero_array, diffusion_state, agent_state,
                   split_kernel>>

DiffusionNodeUpdateStep ==
    /\ ~panicked
    /\ "DiffusionNode" \in split_pending
    /\ LET n == DiffusionNodeUpdate(diffusion_state, split_kernel)
       IN  IF n = <<"panic">>
           THEN panicked' = TRUE /\ UNCHANGED <<diffusion_state, split_pending>>
           ELSE /\ diffusion_state' = n
                /\ split_pending' = split_pending \ {"DiffusionNode"}
                /\ UNCHANGED panicked
    /\ UNCHANGED <<renderVars, phero_cfg, speciesVars, seedVars, frameVars,
                   factorVars, inputVars, phero_array, agent_state, split_kernel,
                   split_cmds>>

AgentNodeUpdateStep ==
    /\ ~panicked
    /\ "AgentNode" \in split_pending
    /\ agent_state' = AgentNodeUpdate(agent_state, split_kernel)
    /\ split_pending' = split_pending \ {"AgentNode"}
    /\ UNCHANGED <<renderVars, panicked, phero_cfg, speciesVars, seedVars, frameVars,
                   factorVars, inputVars, phero_array, diffusion_state, split_kernel,
                   split_cmds>>

(* The graph runs: DiffusionNode::run, then AgentNode::run *)
SplitRun ==
    /\ ~panicked
    /\ split_pending = {"run"}
    /\ IF DiffusionNodeRunPanics(diffusion_state, split_kernel)
       THEN panicked' = TRUE /\ UNCHANGED <<split_pending, split_cmds>>
       ELSE /\ split_cmds' = DiffusionNodeRun(diffusion_state)
                               \o AgentNodeRun(agent_state, split_kernel)
            /\ split_pending' = {}
            /\ UNCHANGED panicked
    /\ UNCHANGED <<renderVars, phero_cfg, speciesVars, seedVars, frameVars,
                   factorVars, inputVars, phero_array, diffusion_state, agent_state,
                   split_kernel>>

NextSplit ==
    \/ SplitPipelineCacheStep
    \/ SplitBeginFrame
    \/ DiffusionNodeUpdateStep
    \/ AgentNodeUpdateStep
    \/ SplitRun

SpecSplit == Init /\ [][NextSplit]_vars

-----------------------------------------------------------------------------
(* Helpers for the properties *)

InitKernels == {DiffuseKernel, InputKernel, CompositeKernel}

Recorded(stage) == {cmds[j] : j \in {x \in 1..Len(cmds) : cmds[x].stage = stage}}

RecordedNext(stage) == {cmds'[j] : j \in {x \in 1..Len(cmds') : cmds'[x].stage = stage}}

InPass(pass) == {cmds[j] : j \in {x \in 1..Len(cmds) : cmds[x].pass = pass}}

Passes == {"pass_arr", "pass2", "pass_comp"}

Rank(stage) ==
    CASE stage = "diffuse"   -> 1
      [] stage = "input"     -> 2
      [] stage = "agents"    -> 3
      [] stage = "composite" -> 4

-----------------------------------------------------------------------------
(* C1: from Loading an update() that sees the agent kernel ready moves the *)
(* node to Init; from Init an update() that sees the diffusion, brush and  *)
(* composite kernels ready moves it to Update(0); the node never enters an *)
(* Update state other than Update(0) from outside Update.                  *)
C1_ReadyTransitions ==
    [][ /\ (phase = "update" /\ state = Loading /\ kernel[AgentKernel] = "Ok")
              => (state' = Init_ /\ phase' = "run")
        /\ (phase = "update" /\ state = Init_
              /\ \A k \in InitKernels : kernel[k] = "Ok")
              => (state' = Update(0) /\ phase' = "run")
        /\ (~IsUpdate(state) /\ IsUpdate(state')) => state' = Update(0)
      ]_vars

C1_Witness ==
    state = Update(0) /\ phase = "run" /\ lastDeposit = "none" /\ cmds = <<>>

(* C2: in Update(i) every update() call moves the node to Update(1-i), and *)
(* an Update state is never left for Loading or Init.                      *)
C2_StrictAlternation ==
    [][ /\ (phase = "update" /\ IsUpdate(state))
              => (state' = Update(1 - state[2]) /\ phase' = "run" /\ ~panicked')
        /\ IsUpdate(state) => IsUpdate(state')
      ]_vars

C2_Witness ==
    state = Update(0) /\ phase = "run" /\ lastDeposit = "prev"

(* C3 as stated: the node is in Update only if all four kernels have each  *)
(* been observed ready, and it never enters Update(0) while one of the     *)
(* four kernels is not ready.                                              *)
C3_Original ==
    [][ /\ IsUpdate(state') => observed' = Kernels
        /\ (state # Update(0) /\ state' = Update(0))
              => \A k \in Kernels : kernel[k] = "Ok"
      ]_vars

(* C3 amended: the node is in Update only if each of the four kernels has  *)
(* been observed ready by some update() call, and it enters Update(0) from *)
(* Init only in a call that sees the diffusion, brush and composite        *)
(* kernels ready.                                                          *)
C3_ObservedReady ==
    [][ /\ IsUpdate(state') => observed' = Kernels
        /\ (state = Init_ /\ state' = Update(0))
              => \A k \in InitKernels : kernel[k] = "Ok"
      ]_vars

C3_Witness ==
    IsUpdate(state) /\ observed = Kernels /\ kernel[AgentKernel] # "Ok"

(* C4: whenever a frame records the diffusion pass after some agent pass   *)
(* has executed, the copy diffusion reads is the copy the most recently    *)
(* executed agent pass deposited into, and not the copy this frame's       *)
(* agents write.                                                           *)
C4_DiffusionReadsLastDeposit ==
    [][ (phase = "run" /\ lastDeposit # "none")
          => \A d \in RecordedNext("diffuse") :
                /\ d.group.prev_array = lastDeposit
                /\ \A a \in RecordedNext("agents") :
                       a.group.phero # d.group.prev_array
      ]_vars

(* C5 as stated: no compute pass of a frame both reads and writes the same *)
(* physical field copy.                                                    *)
C5_Original ==
    \A p \in Passes :
        (UNION {Reads(d) : d \in InPass(p)})
            \cap (UNION {Writes(d) : d \in InPass(p)})
            \cap FieldCopies = {}

(* C5 amended: the diffusion/brush pass never writes the field copy it     *)
(* binds read-only, the composite pass only reads its field copy and       *)
(* writes only a display texture, and the agent pass binds exactly one     *)
(* field copy, read_write, which it both reads and writes.                 *)
C5_SourceNeverWritten ==
    /\ \A d \in InPass("pass_arr") :
          /\ Bound(d, {"ReadOnly"}) \cap FieldCopies # {}
          /\ Bound(d, {"ReadOnly"}) \cap Writes(d) = {}
    /\ \A d \in InPass("pass_comp") :
          /\ Writes(d) \cap FieldCopies = {}
          /\ Reads(d) \cap Writes(d) = {}
    /\ \A d \in InPass("pass2") :
          /\ Reads(d) = Writes(d)
          /\ Cardinality(Reads(d) \cap FieldCopies) = 1

C5_Witness ==
    /\ Len(cmds) = 4
    /\ state = Update(1)

(* C6: for each ping index the diffusion/brush bind group has one field    *)
(* copy as its read copy and the other as its write copy, index 1 has the  *)
(* roles of index 0 reversed, and run() uses the group of its index.       *)
C6_EnvRolesSwap ==
    /\ env_bind_groups # {} =>
          LET g == Some(env_bind_groups)
          IN  /\ \A i \in {0, 1} :
                    /\ {g[i].prev_array, g[i].next_array} = FieldCopies
                    /\ g[i].prev_array # g[i].next_array
              /\ g[1].prev_array = g[0].next_array
              /\ g[1].next_array = g[0].prev_array
    /\ \A d \in Recorded("diffuse") \cup Recorded("input") :
          d.group = Some(env_bind_groups)[state[2]]

C6_Witness ==
    /\ Recorded("diffuse") # {}
    /\ Recorded("input") # {}
    /\ state = Update(1)
    /\ Recorded("composite") = {}

(* C7: for each ping index the agent pass binds, and the compositor reads, *)
(* exactly the field copy the diffusion/brush pass of that index writes.   *)
C7_AgentsAndCompositeUseNext ==
    /\ (agent_bind_groups # {} /\ env_bind_groups # {} /\ comp_bind_groups # {}) =>
          \A i \in {0, 1} :
              /\ Some(agent_bind_groups)[i].phero = Some(env_bind_groups)[i].next_array
              /\ Some(comp_bind_groups)[i].array = Some(env_bind_groups)[i].next_array
    /\ \A e \in Recorded("diffuse") \cup Recorded("input") :
          /\ \A a \in Recorded("agents") :
                Reads(a) \cup Writes(a) = {e.group.next_array}
          /\ \A c \in Recorded("composite") :
                Reads(c) = {e.group.next_array}

C7_Witness ==
    /\ Recorded("diffuse") # {}
    /\ Recorded("agents") # {}
    /\ Recorded("composite") # {}
    /\ state = Update(1)
    /\ lastDeposit = "prev"

(* C8: the dispatches of a frame are recorded in the order diffusion,      *)
(* brush input, agent update, composite.                                   *)
C8_StageOrder ==
    \A j, k \in 1..Len(cmds) :
        j < k => Rank(cmds[j].stage) < Rank(cmds[k].stage)

C8_Witness ==
    /\ Len(cmds) = 4
    /\ state = Update(0)
    /\ run_config.run_diffuse /\ run_config.run_copy_and_input /\ run_config.run_agents

(* C9: in a frame in which prepare_bind_group returned early because a     *)
(* resource was unresolved, run() records no dispatch and returns without  *)
(* a panic, in every node state.                                           *)
C9_UnresolvedSkipsFrame ==
    [][ (phase = "run" /\ ~(Resources \subseteq resolved))
          => (~panicked' /\ cmds' = <<>> /\ phase' = "extract")
      ]_vars

(* C10: a compile error of the kernel the node is waiting for (the agent   *)
(* kernel in Loading; diffusion, brush or composite in Init) aborts the    *)
(* run.                                                                    *)
C10_CompileErrorAborts ==
    [][ (/\ phase = "update"
         /\ \/ state = Loading /\ kernel[AgentKernel] = "Err"
            \/ state = Init_ /\ \E k \in InitKernels : kernel[k] = "Err")
          => panicked'
      ]_vars

(* C11: while the kernel the node waits for is merely not yet ready        *)
(* (shader not loaded, queued or compiling), update() leaves the node in   *)
(* Loading / Init, and run() in Loading or Init records no dispatch;       *)
(* neither call aborts the run.                                            *)
NotYetReady == {"ShaderNotLoaded", "Queued", "Creating"}

C11_NotReadyWaits ==
    [][ /\ (/\ phase = "update"
            /\ \/ state = Loading /\ kernel[AgentKernel] \in NotYetReady
               \/ state = Init_ /\ \E k \in InitKernels : kernel[k] \in NotYetReady)
              => (state' = state /\ phase' = "run" /\ ~panicked')
        /\ (phase = "run" /\ state \in {Loading, Init_})
              => (cmds' = <<>> /\ phase' = "extract" /\ ~panicked')
      ]_vars

-----------------------------------------------------------------------------
(* Helpers for the species properties *)

Uploaded == species_layer_weights # {}

Matrix == Some(species_layer_weights)

SpeciesRows == 0..(Matrix.species_count - 1)

MatrixLayers == 0..(Matrix.layer_count - 1)

HasLayerWeights(si) ==
    si < Len(species_authored) /\ species_authored[si + 1].layer_w # {}

(* what species si authored for layer li: the entry of its LayerWeights,   *)
(* else of the legacy weights of its uploaded record; 0 beyond either.     *)
Authored(si, li) ==
    IF HasLayerWeights(si)
    THEN LET w == Some(species_authored[si + 1].layer_w)
         IN  IF li < Len(w) THEN w[li + 1] ELSE 0
    ELSE IF li < 4 THEN Some(species_gpu)[si + 1].weights[li + 1] ELSE 0

(* C12 as stated: after the rebuild, in every species row every layer in   *)
(* universal_love_layers has weight +1, every layer in                     *)
(* universal_hate_layers has weight -1, and every other layer has its      *)
(* authored value.                                                         *)
C12_Original ==
    Uploaded =>
        \A si \in SpeciesRows : \A li \in MatrixLayers :
            /\ li \in phero_cfg.universal_love_layers => WeightAt(Matrix, si, li) = 1
            /\ li \in phero_cfg.universal_hate_layers => WeightAt(Matrix, si, li) = -1
            /\ li \notin (phero_cfg.universal_love_layers
                            \cup phero_cfg.universal_hate_layers)
                  => WeightAt(Matrix, si, li) = Authored(si, li)

(* C12 amended: after the rebuild, in every species row every layer in     *)
(* universal_hate_layers has weight -1, every layer in                     *)
(* universal_love_layers and not in universal_hate_layers has weight +1,   *)
(* and every other layer has its authored value.                           *)
C12_UniversalOverride ==
    Uploaded =>
        \A si \in SpeciesRows : \A li \in MatrixLayers :
            WeightAt(Matrix, si, li) =
                IF li \in phero_cfg.universal_hate_layers THEN -1
                ELSE IF li \in phero_cfg.universal_love_layers THEN 1
                ELSE Authored(si, li)

C12_Witness ==
    /\ Uploaded
    /\ Matrix.layer_count = 5
    /\ Matrix.species_count = 2
    /\ phero_cfg.universal_love_layers = {1}
    /\ phero_cfg.universal_hate_layers = {0}
    /\ HasLayerWeights(0) /\ ~HasLayerWeights(1)
    /\ \A si \in SpeciesRows :
          WeightAt(Matrix, si, 0) = -1 /\ WeightAt(Matrix, si, 1) = 1
    /\ WeightAt(Matrix, 0, 2) = 4

(* C13: for a species authored with explicit LayerWeights, the dense       *)
(* matrix read at (species, layer) returns the authored entry for every    *)
(* layer of the matrix that is in neither universal list, and 0 for such   *)
(* layers beyond the length of the authored vector.                        *)
C13_ExplicitRoundTrip ==
    Uploaded =>
        \A si \in SpeciesRows : \A li \in MatrixLayers :
            (/\ HasLayerWeights(si)
             /\ li \notin phero_cfg.universal_love_layers
             /\ li \notin phero_cfg.universal_hate_layers)
              => LET w == Some(species_authored[si + 1].layer_w)
                 IN  /\ li < Len(w) => WeightAt(Matrix, si, li) = w[li + 1]
                     /\ li >= Len(w) => WeightAt(Matrix, si, li) = 0

C13_Witness ==
    /\ Uploaded
    /\ Matrix.layer_count = 4
    /\ Matrix.species_count = 2
    /\ HasLayerWeights(1)
    /\ Len(Some(species_authored[2].layer_w)) = 2
    /\ phero_cfg.universal_love_layers = {0}
    /\ phero_cfg.universal_hate_layers = {}
    /\ WeightAt(Matrix, 1, 1) = 3
    /\ WeightAt(Matrix, 1, 3) = 0

-----------------------------------------------------------------------------
(* Helpers for the seeding properties *)

Seeded == agents_cpu # {}

Agents == Some(agents_cpu)

InField(a, size) ==
    /\ 0 <= a.position[1] /\ a.position[1] <= size[1] * PosScale
    /\ 0 <= a.position[2] /\ a.position[2] <= size[2] * PosScale

(* C15 as stated: for every count and every species_count the call         *)
(* returns, with exactly count agents, each inside the field and with a    *)
(* finite heading.                                                         *)
C15_Original ==
    /\ ~panicked
    /\ Seeded =>
          /\ Len(Agents) = seed_args.num_agents
          /\ \A k \in 1..Len(Agents) :
                InField(Agents[k], seed_args.size) /\ ~Agents[k].angle.nan

(* C15 amended: for count = 0 or species_count >= 1 the call returns       *)
(* exactly count agents, each inside the field and with a finite heading;  *)
(* for count > 0 and species_count = 0 it panics and returns nothing.      *)
C15_CountBoundsHeading ==
    /\ Seeded =>
          /\ Len(Agents) = seed_args.num_agents
          /\ \A k \in 1..Len(Agents) :
                InField(Agents[k], seed_args.size) /\ ~Agents[k].angle.nan
    /\ panicked => (seed_args.num_agents > 0 /\ seed_args.species_count = 0)
    /\ (seed_args.num_agents > 0 /\ seed_args.species_count = 0) => ~Seeded

C15_Witness ==
    /\ Seeded
    /\ Len(Agents) = 3
    /\ seed_args.size = <<4, 2>>
    /\ Agents[1].position = <<300, 150>>
    /\ Agents[1].angle.dir = <<5, 0>>
    /\ Agents[2].position[1] > 300
    /\ Agents[3].position[2] < 150

(* C16: the agent created at index i has species_index i mod               *)
(* species_count.                                                          *)
C16_RoundRobin ==
    Seeded =>
        \A k \in 1..Len(Agents) :
            Agents[k].species_index = (k - 1) % seed_args.species_count

C16_Witness ==
    /\ Seeded
    /\ seed_args.species_count = 2
    /\ Len(Agents) = 3
    /\ Agents[1].species_index = 0
    /\ Agents[2].species_index = 1
    /\ Agents[3].species_index = 0

(* C14: once the agents are seeded and the species table is uploaded,      *)
(* every agent's species_index is smaller than the number of species       *)
(* records in the table, for every number of authored species.             *)
C14_SpeciesIndexInTable ==
    (Seeded /\ species_gpu # {}) =>
        \A k \in 1..Len(Agents) :
            Agents[k].species_index < Len(Some(species_gpu))

(* C17: after any sequence of wheel and digit-key inputs, the handlers     *)
(* running in either order, brush_target_layer is within                   *)
(* [0, layer_count - 1], and is 0 when layer_count is 0 or 1.              *)
C17_BrushLayerInRange ==
    /\ 0 <= phero_cfg.brush_target_layer
    /\ phero_cfg.brush_target_layer <= Max(phero_cfg.layer_count - 1, 0)
    /\ phero_cfg.layer_count <= 1 => phero_cfg.brush_target_layer = 0

C17_Witness ==
    /\ phero_cfg.layer_count = 5
    /\ phero_cfg.brush_target_layer = 4

(* C18: the pointer position update_globals_uniform stores is a field      *)
(* cell: 0 <= x <= width - 1 and 0 <= y <= height - 1.                     *)
C18_PointerInField ==
    (globals # {} /\ Some(globals).frame > 0) =>
        LET g == Some(globals)
        IN  /\ 0 <= g.mouse_position[1]
            /\ g.mouse_position[1] <= g.screen_size[1] - 1
            /\ 0 <= g.mouse_position[2]
            /\ g.mouse_position[2] <= g.screen_size[2] - 1

(* C19: once the per-frame systems of a frame have run, the per-layer      *)
(* parameter buffer holds, for every layer, the factors computed from the  *)
(* authored diffusion and decay rates and the frame time of that frame,    *)
(* also in the first frame and in frames with frame time 0.                *)
C19_BufferHoldsFrameFactors ==
    (globals # {} /\ Some(globals).frame > 0 /\ pending = {}) =>
        layer_params_buf = {UploadLayerParams(Some(layer_params_cpu), time_delta)}

-----------------------------------------------------------------------------
(* Helpers for the factor properties *)

Evaluated == factor_out # {}

(* the exact powers (1 - r)^dt1 and (1 - r)^dt2, dt1 < dt2, are at least   *)
(* one step of the value resolution apart                                  *)
PowersApart ==
    LET base == FloatSteps - factor_args.rate
        d1   == factor_args.dt1
        d2   == factor_args.dt2
    IN  /\ d1 < d2
        /\ Pow(base, d1) * Pow(FloatSteps, d2 - d1) - Pow(base, d2)
              >= Pow(FloatSteps, d2 - 1)

(* C20 as stated: for every rate in [0, 1) and dt1 < dt2 the factor of dt1 *)
(* is smaller than the factor of dt2, and the factor of dt = 0 is 0.       *)
C20_Original ==
    Evaluated =>
        /\ factor_args.dt1 < factor_args.dt2
              => Some(factor_out).f1 < Some(factor_out).f2
        /\ factor_args.dt1 = 0 => Some(factor_out).f1 = 0

(* C20 amended: for every rate in [0, 1) and dt1 < dt2 the factor of dt1   *)
(* is at most the factor of dt2, and smaller when the two exact powers are *)
(* at least one step of the result's precision apart; the factor of        *)
(* dt = 0 is 0; for the rate 0 the factor is 0 for every dt.               *)
C20_FactorMonotone ==
    Evaluated =>
        /\ factor_args.dt1 < factor_args.dt2
              => Some(factor_out).f1 <= Some(factor_out).f2
        /\ PowersApart => Some(factor_out).f1 < Some(factor_out).f2
        /\ factor_args.dt1 = 0 => Some(factor_out).f1 = 0
        /\ factor_args.rate = 0
              => (Some(factor_out).f1 = 0 /\ Some(factor_out).f2 = 0)

C20_Witness ==
    /\ Evaluated
    /\ factor_args = [rate |-> F32(1, 2), dt1 |-> 1, dt2 |-> 2]
    /\ Some(factor_out).f1 = F32(1, 2)
    /\ Some(factor_out).f2 = F32(3, 4)

(* C21: the rebuilt weight matrix has exactly species_count times          *)
(* max(layer_count, 1) entries, entry (species, layer) lies at             *)
(* species * layer count + layer, and the rebuild assigns no index outside *)
(* the matrix and reads no index outside an authored vector, also when the *)
(* vector is longer than layer_count or a universal list names a layer     *)
(* that does not exist.                                                    *)
C21_MatrixShapeAndBounds ==
    Uploaded =>
        /\ Matrix.species_count = Len(Some(species_gpu))
        /\ Matrix.layer_count = Max(phero_cfg.layer_count, 1)
        /\ Len(Matrix.weights) = Matrix.species_count * Max(phero_cfg.layer_count, 1)
        /\ \A idx \in WeightIndicesWritten(phero_cfg, species_authored) :
              0 <= idx /\ idx < Len(Matrix.weights)
        /\ \A si \in SpeciesRows :
              \A i \in OverrideIndicesRead(phero_cfg, species_authored, si) :
                  i < Len(Some(species_authored[si + 1].layer_w))
        /\ \A si \in SpeciesRows : \A li \in MatrixLayers :
              (li \notin phero_cfg.universal_love_layers
                 /\ li \notin phero_cfg.universal_hate_layers)
                => Matrix.weights[si * Matrix.layer_count + li + 1] = Authored(si, li)

C21_Witness ==
    /\ Uploaded
    /\ phero_cfg.layer_count = 2
    /\ phero_cfg.universal_love_layers = {4}
    /\ phero_cfg.universal_hate_layers = {3}
    /\ Len(species_authored) = 2
    /\ HasLayerWeights(0) /\ HasLayerWeights(1)
    /\ Len(Some(species_authored[1].layer_w)) = 6
    /\ Len(Some(species_authored[2].layer_w)) = 1
    /\ Matrix.weights = <<2, 3, 2, 0>>

(* the legacy weight vectors of the default red, green and blue species *)
DefaultLegacy == <<<<1, -1, -1, 0>>, <<-1, 1, -1, 0>>, <<-1, -1, 1, 0>>>>

(* C22: when no species is authored, the upload yields exactly the three   *)
(* default records red, green, blue in that order and a matrix of three    *)
(* rows whose entries, where no universal list overrides them, are the     *)
(* legacy weights of those records; the uploaded species table is never    *)
(* empty.                                                                  *)
C22_DefaultTrio ==
    Uploaded =>
        /\ Len(Some(species_gpu)) >= 1
        /\ Matrix.species_count >= 1
        /\ Len(species_authored) = 0 =>
              /\ Some(species_gpu) = <<SpeciesRed, SpeciesGreen, SpeciesBlue>>
              /\ Matrix.species_count = 3
              /\ Len(Matrix.weights) = 3 * Matrix.layer_count
              /\ \A si \in 0..2 : \A li \in MatrixLayers :
                    (li \notin phero_cfg.universal_love_layers
                       /\ li \notin phero_cfg.universal_hate_layers)
                      => WeightAt(Matrix, si, li) =
                            IF li < 4 THEN DefaultLegacy[si + 1][li + 1] ELSE 0

C22_Witness ==
    /\ Uploaded
    /\ Len(species_authored) = 0
    /\ phero_cfg.layer_count = 3
    /\ phero_cfg.universal_love_layers = {}
    /\ phero_cfg.universal_hate_layers = {}
    /\ Matrix.weights = <<1, -1, -1, -1, 1, -1, -1, -1, 1>>

(* the legacy 4-component weights of uploaded species si *)
Legacy(si) == Some(species_gpu)[si + 1].weights

(* layers of the matrix whose first-loop value no universal list replaces *)
NotOverridden ==
    {li \in MatrixLayers : li \notin phero_cfg.universal_love_layers
                             /\ li \notin phero_cfg.universal_hate_layers}

(* C23 as stated: for a species without an explicit vector, the first      *)
(* min(4, layer_count) entries of its row are its legacy x, y, z, w in     *)
(* that order and every further entry is 0, wherever no universal list     *)
(* has replaced the entry.                                                 *)
C23_Original ==
    Uploaded =>
        \A si \in SpeciesRows : ~HasLayerWeights(si) =>
            \A li \in NotOverridden :
                WeightAt(Matrix, si, li) =
                    IF li < Min(4, phero_cfg.layer_count)
                    THEN Legacy(si)[li + 1] ELSE 0

(* C23 amended: the same with the row length max(layer_count, 1) in place  *)
(* of layer_count: the first min(4, max(layer_count, 1)) entries are the   *)
(* legacy x, y, z, w and every further entry is 0.                         *)
C23_LegacyMapping ==
    Uploaded =>
        \A si \in SpeciesRows : ~HasLayerWeights(si) =>
            \A li \in NotOverridden :
                WeightAt(Matrix, si, li) =
                    IF li < Min(4, Max(phero_cfg.layer_count, 1))
                    THEN Legacy(si)[li + 1] ELSE 0

C23_Witness ==
    /\ Uploaded
    /\ phero_cfg.layer_count = 5
    /\ NotOverridden = MatrixLayers
    /\ Len(species_authored) = 1
    /\ ~HasLayerWeights(0)
    /\ Legacy(0) = <<-3, 2, 0, -1>>
    /\ \A li \in 0..3 : WeightAt(Matrix, 0, li) = Legacy(0)[li + 1]
    /\ WeightAt(Matrix, 0, 4) = 0

(* the last handler that ran was the wheel handler *)
Wheeled == last_input # {} /\ Some(last_input).system = "handle_mouse_wheel_layer"

(* the net number of unit steps of the wheel events that handler read *)
NetSteps == WheelDelta(Some(last_input).events)

(* C24: after the wheel handler has read events with a net of d unit       *)
(* steps, brush_target_layer is (layer before + d) mod layer_count, the    *)
(* result lying in 0..layer_count-1 for positive and negative d alike (for *)
(* layer_count 0 the layer stays 0); with a net of 0 the layer is          *)
(* unchanged; and a step of one unit down that follows a step of one unit  *)
(* up restores the layer the first step started from.                      *)
C24_WheelCycles ==
    Wheeled =>
        LET before == Some(last_input).layer_before
            layers == phero_cfg.layer_count
        IN  /\ layers >= 1 =>
                  phero_cfg.brush_target_layer = (before + NetSteps) % layers
            /\ layers = 0 => phero_cfg.brush_target_layer = 0
            /\ NetSteps = 0 => phero_cfg.brush_target_layer = before
            /\ (NetSteps = -1 /\ prev_step_up # {})
                  => phero_cfg.brush_target_layer = Some(prev_step_up)

(* a step down from layer 0 wraps to the last layer, undoing a step up     *)
(* that wrapped from the last layer to layer 0                             *)
C24_Witness ==
    /\ Wheeled
    /\ phero_cfg.layer_count = 3
    /\ NetSteps = -1
    /\ Some(last_input).layer_before = 0
    /\ prev_step_up = {2}
    /\ phero_cfg.brush_target_layer = 2

(* the last handler that ran was the digit-key handler *)
Hotkeyed == last_input # {} /\ Some(last_input).system = "handle_brush_hotkeys"

(* the digit keys that handler found just pressed *)
KeysPressed == Some(last_input).events

(* C25 as stated: after the digit-key handler has run in a frame in which  *)
(* digit k was pressed, brush_target_layer is min(k, layer_count - 1).     *)
C25_Original ==
    Hotkeyed =>
        \A k \in KeysPressed :
            phero_cfg.brush_target_layer = Min(k, phero_cfg.layer_count - 1)

(* C25 amended: after the digit-key handler has run in a frame in which    *)
(* some digits were pressed, brush_target_layer is                         *)
(* min(k, max(layer_count - 1, 0)) for the lowest pressed digit k,         *)
(* whatever the layer was before; with no digit pressed it is unchanged.   *)
C25_DigitJumps ==
    Hotkeyed =>
        IF KeysPressed # {}
        THEN LET k == CHOOSE d \in KeysPressed : \A j \in KeysPressed : d <= j
             IN  phero_cfg.brush_target_layer =
                     Min(k, Max(phero_cfg.layer_count - 1, 0))
        ELSE phero_cfg.brush_target_layer = Some(last_input).layer_before

C25_Witness ==
    /\ Hotkeyed
    /\ KeysPressed = {7}
    /\ phero_cfg.layer_count = 3
    /\ Some(last_input).layer_before = 1
    /\ phero_cfg.brush_target_layer = 2

(* the centre of the field the agents were seeded in *)
Centre == <<(seed_args.size[1] * PosScale) \div 2, (seed_args.size[2] * PosScale) \div 2>>

(* C26: no seeded agent is at the field centre, whatever radius and angle  *)
(* were drawn for it.                                                      *)
C26_NoAgentAtCentre ==
    Seeded => \A k \in 1..Len(Agents) : Agents[k].position # Centre

(* C29: every uploaded species record has emit_layer < layer_count of the  *)
(* configuration in force, the default species under the default           *)
(* configuration included.                                                 *)
C29_EmitLayerExists ==
    species_gpu # {} =>
        \A i \in 1..Len(Some(species_gpu)) :
            Some(species_gpu)[i].emit_layer < phero_cfg.layer_count

(* a composite dispatch is recorded in the current frame *)
CompositeWrites == {cmds[j].group.rgba : j \in {i \in 1..Len(cmds) : cmds[i].stage = "composite"}}

(* C27: in every frame in which the compositor writes a display texture,   *)
(* the sprite shows the texture written in that frame, however many frames *)
(* the node spent in Loading and Init.                                     *)
C27_SpriteShowsWritten ==
    \A t \in CompositeWrites : sprite = {t}

(* the split nodes are between two frames, both in Update *)
BothUpdating ==
    /\ split_pending = {}
    /\ IsUpdate(diffusion_state)
    /\ IsUpdate(agent_state)

(* C28: at the end of every frame in which DiffusionNode and AgentNode are *)
(* both in Update, the ping index of AgentNode is the opposite of that of  *)
(* DiffusionNode, and an agent dispatch recorded in the frame reads the    *)
(* texture the diffusion dispatch wrote.                                   *)
C28_OppositeIndices ==
    (BothUpdating /\ ~panicked) =>
        /\ agent_state[2] = 1 - diffusion_state[2]
        /\ \A i, j \in 1..Len(split_cmds) :
              (split_cmds[i].node = "DiffusionNode" /\ split_cmds[j].node = "AgentNode")
                => split_cmds[j].group.input = split_cmds[i].group.output

(* C30: the depth of every diffusion and brush dispatch is at most the     *)
(* number of layers allocated in the prev/next array images, for every     *)
(* configured layer_count.                                                 *)
C30_DepthWithinAllocation ==
    \A j \in 1..Len(cmds) :
        cmds[j].stage \in {"diffuse", "input"} =>
            (phero_array # {} /\ cmds[j].z <= Some(phero_array))

(* the legacy weight the components of entity e ask for on channel ch *)
Requested(e, ch) ==
    (IF e.follow # {} /\ Some(e.follow).channel = ch THEN Some(e.follow).strength ELSE 0)
    - (IF e.avoid # {} /\ Some(e.avoid).channel = ch THEN Some(e.avoid).strength ELSE 0)

(* C31: the record built from an authored entity has legacy weight         *)
(* +strength on the followed channel, -strength on the avoided channel and *)
(* 0 on every channel (x, y, z, w = 0..3) that is neither; with neither    *)
(* component all four weights are 0.                                       *)
C31_LegacyWeightsFromComponents ==
    (Uploaded /\ Len(species_authored) > 0) =>
        \A i \in 1..Len(species_authored) : \A ch \in 0..3 :
            Some(species_gpu)[i].weights[ch + 1] = Requested(species_authored[i], ch)

(* the stages of the dispatches in a command sequence, in order *)
Stages(c) == [j \in 1..Len(c) |-> c[j].stage]

(* the flag that gates a stage; the composite has none *)
Enabled(stage) ==
    CASE stage = "diffuse" -> run_config.run_diffuse
      [] stage = "input"   -> run_config.run_copy_and_input
      [] stage = "agents"  -> run_config.run_agents
      [] OTHER             -> TRUE

(* the four stages in program order, without the disabled ones *)
EnabledStages == SelectSeq(<<"diffuse", "input", "agents", "composite">>, Enabled)

(* every kernel is ready and every bind group is present *)
AllReady ==
    /\ \A k \in Kernels : kernel[k] = "Ok"
    /\ agent_bind_groups # {} /\ env_bind_groups # {} /\ comp_bind_groups # {}

(* C32: a run() never records a dispatch of a stage whose flag is false;   *)
(* in Update with every kernel ready it records exactly the enabled stages *)
(* and the composite, in the order diffusion, brush, agents, composite;    *)
(* and update() flips the ping index in every frame whatever the flags     *)
(* are.                                                                    *)
C32_FlagsGateOwnStage ==
    [][ /\ (phase = "run" /\ ~panicked')
              => /\ \A j \in 1..Len(cmds') : Enabled(cmds'[j].stage)
                 /\ (IsUpdate(state) /\ AllReady) => Stages(cmds') = EnabledStages
        /\ (phase = "update" /\ IsUpdate(state))
              => state' = Update(1 - state[2])
      ]_vars

C32_Witness ==
    /\ phase = "extract"
    /\ state = Update(1)
    /\ ~run_config.run_agents /\ run_config.run_diffuse /\ ~run_config.run_copy_and_input
    /\ Stages(cmds) = <<"diffuse", "composite">>

(* C33: when every kernel eventually becomes ready and stays ready, and     *)
(* update() goes on being called once per frame (the run never aborts),     *)
(* the node reaches Update(0) and from some frame on is in an Update state  *)
(* in every frame.                                                          *)
KernelsReady == \A k \in Kernels : kernel[k] = "Ok"

C33_ReadyKernelsReachUpdate ==
    (<>[]KernelsReady /\ []~panicked)
        => (<>(state = Update(0)) /\ <>[]IsUpdate(state))

C33_Witness ==
    /\ ~panicked
    /\ KernelsReady
    /\ observed = Kernels
    /\ state = Update(0)
    /\ phase = "run"

(* C34: after the rebuild, a layer of the matrix that is listed in both     *)
(* universal_love_layers and universal_hate_layers has weight -1 in every   *)
(* species row: the hate override is written after the love override.       *)
InBothLists ==
    phero_cfg.universal_love_layers \cap phero_cfg.universal_hate_layers

C34_HateWinsOverLove ==
    Uploaded =>
        \A si \in SpeciesRows : \A li \in MatrixLayers \cap InBothLists :
            WeightAt(Matrix, si, li) = -1

C34_Witness ==
    /\ Uploaded
    /\ Matrix.species_count = 2
    /\ Matrix.layer_count = 3
    /\ InBothLists = {1}
    /\ HasLayerWeights(0)
    /\ Authored(0, 1) = 3
    /\ WeightAt(Matrix, 0, 1) = -1
    /\ WeightAt(Matrix, 1, 1) = -1

(* the handler of this step read no net wheel movement, or no pressed digit *)
NoInput(inp) ==
    \/ inp.system = "handle_mouse_wheel_layer" /\ WheelDelta(inp.events) = 0
    \/ inp.system = "handle_brush_hotkeys" /\ inp.events = {}

(* C35: a run of either input handler changes no field of the              *)
(* configuration but brush_target_layer (layer_count and the three layer    *)
(* lists stay as they were), and a run that read no wheel movement, or in   *)
(* which no digit was pressed, leaves the whole configuration unchanged.    *)
C35_OnlyBrushChanges ==
    [][ /\ phero_cfg' = [phero_cfg EXCEPT !.brush_target_layer =
                                              phero_cfg'.brush_target_layer]
        /\ phero_cfg'.layer_count = phero_cfg.layer_count
        /\ phero_cfg'.universal_love_layers = phero_cfg.universal_love_layers
        /\ phero_cfg'.universal_hate_layers = phero_cfg.universal_hate_layers
        /\ phero_cfg'.paint_only_layers = phero_cfg.paint_only_layers
        /\ NoInput(Some(last_input')) => phero_cfg' = phero_cfg ]_vars

(* the digit handler ran without a pressed digit after the brush had been   *)
(* moved to layer 3: the layer and the three lists are as before            *)
C35_Witness ==
    /\ Hotkeyed
    /\ KeysPressed = {}
    /\ Some(last_input).layer_before = 3
    /\ phero_cfg = [layer_count |-> 5,
                    brush_target_layer |-> 3,
                    universal_love_layers |-> {1},
                    universal_hate_layers |-> {0},
                    paint_only_layers |-> {2}]

====
